---------------------------- MODULE Spec2Model ----------------------------
(***************************************************************************)
(* Model of Download (package http, src/utils/logger/logger.go:119-297):   *)
(* the resumable download with probe, resume plan, transfer, size check    *)
(* and retry by recursive self-invocation.                                 *)
(*                                                                         *)
(* Strings are sequences of one-character strings, so that filepath.Base,  *)
(* filepath.Ext, filepath.Dir, strings.LastIndex and strings.Replace are   *)
(* computed the way the Go library computes them.  A file is a sequence of *)
(* bytes, each byte marked Old (on disk before the current invocation of   *)
(* Download started) or New (written by the current invocation).           *)
(***************************************************************************)
EXTENDS Integers, Sequences, FiniteSets, TLC

(* ------------------------------ bounds -------------------------------- *)

\* largest retry budget a caller passes
MaxRetry == 2
\* largest content length the server declares, and largest response body
MaxLen == 2

(* ------------------------- program constants -------------------------- *)

\* timeout := 300 (seconds) when the caller passes none
DefaultTimeout == 300
\* http.Get uses http.DefaultClient, whose Timeout is 0: no deadline
NoDeadline == 0

(* --------------------------- string helpers --------------------------- *)

Sep == "/"
Dot == "."

\* the largest index i of s with s[i] = c, 0 when there is none
\* (strings.LastIndex, shifted by one: Go returns -1 and counts from 0)
LastIndex(s, c) ==
    LET I == {i \in 1..Len(s) : s[i] = c}
    IN  IF I = {} THEN 0 ELSE CHOOSE i \in I : \A j \in I : j <= i

\* s without its trailing separators
RECURSIVE TrimSep(_)
TrimSep(s) ==
    IF Len(s) > 0 /\ s[Len(s)] = Sep THEN TrimSep(SubSeq(s, 1, Len(s) - 1)) ELSE s

\* filepath.Base: the last element of the path
Base(path) ==
    IF path = <<>> THEN <<Dot>>
    ELSE LET t == TrimSep(path)
         IN  IF t = <<>> THEN <<Sep>>
             ELSE SubSeq(t, LastIndex(t, Sep) + 1, Len(t))

\* filepath.Ext: the suffix beginning at the final dot of the final element
Ext(path) ==
    LET d == LastIndex(path, Dot)
    IN  IF d > LastIndex(path, Sep) THEN SubSeq(path, d, Len(path)) ELSE <<>>

\* filepath.Dir, for paths without "." and ".." elements and doubled separators
Dir(path) ==
    LET i == LastIndex(path, Sep)
    IN  IF i = 0 THEN <<Dot>>
        ELSE LET d == TrimSep(SubSeq(path, 1, i))
             IN  IF d = <<>> THEN <<Sep>> ELSE d

\* the least index at which old occurs in s, 0 when it does not occur
IndexOf(s, old) ==
    LET I == {i \in 1..(Len(s) - Len(old) + 1) : SubSeq(s, i, i + Len(old) - 1) = old}
    IN  IF I = {} THEN 0 ELSE CHOOSE i \in I : \A j \in I : i <= j

\* strings.Replace(s, old, "", 1): s without the first occurrence of old
RemoveFirst(s, old) ==
    LET i == IndexOf(s, old)
    IN  IF i = 0 THEN s
        ELSE SubSeq(s, 1, i - 1) \o SubSeq(s, i + Len(old), Len(s))


(* ------------------------------ inputs -------------------------------- *)

\* "/t/a.x": a target with an extension
TargetFile == <<"/", "t", "/", "a", ".", "x">>
\* "/t/d": a target without extension (a bare directory)
TargetBare == <<"/", "t", "/", "d">>
\* "d": a target with neither extension nor separator
TargetNoSep == <<"d">>
Targets == {TargetFile, TargetBare, TargetNoSep}

\* a timeout a caller passes explicitly
CallerTimeout == 30

\* the variadic arguments msgs: none, retry alone, or retry, timeout, progressbar
MsgsSet ==
    {<<>>} \cup {<<n>> : n \in 0..MaxRetry}
           \cup {<<n, CallerTimeout, TRUE>> : n \in 0..MaxRetry}

NoType == ""
ContentTypes == {NoType, "image/png", "application/x-unknown"}

\* mime.ExtensionsByType: the extensions known for a MIME type
ExtensionsByType(contentType) ==
    IF contentType = "image/png" THEN << <<".", "p", "n", "g">> >> ELSE <<>>

\* the probe's Content-Range and Accept-Ranges headers
ProbeHeaders ==
    { <<"", "none">>, <<"", "bytes">>, <<"bytes 0-0/1", "">> }

\* hresp.ContentLength: -1 when the server declares none
Lengths == (-1)..MaxLen

StatusCodes == {200, 206, 404}

(* ------------------------------ errors -------------------------------- *)

NoErr == <<>>

\* an error raised by a collaborator (net/http, os, io) at a stage of the
\* ep-th invocation of the call
Raised(stage, ep) == [text |-> <<stage>>, at |-> ep]

\* fmt.Errorf(format, arg) for a format without verb: the argument is not
\* substituted, it is reported after the format as %!(EXTRA string=arg)
Errorf(format, arg, ep) ==
    [text |-> <<format, "%!(EXTRA string=">> \o arg \o <<")">>, at |-> ep]

\* an error Download creates itself
Created(msg, ep) == [text |-> <<msg>>, at |-> ep]

(* --------------------------- file system ------------------------------ *)

Absent == <<"absent">>

Old == "old"
New == "new"

\* k bytes with mark m
RECURSIVE Bytes(_, _)
Bytes(m, k) == IF k <= 0 THEN <<>> ELSE <<m>> \o Bytes(m, k - 1)

\* the files as a new invocation finds them: every byte was written before it
Aged(f) == [q \in DOMAIN f |-> Bytes(Old, Len(f[q]))]

(* ------------------------- Download: pure steps ----------------------- *)

\* lines 120-132: filename, extension and directory of the target;
\* ok is FALSE for "Not the correct file address"
ResolveTargetDirIsTarget(t) ==
    [ok |-> Ext(t) # <<>> \/ LastIndex(t, Sep) > 0, filename |-> Base(t),
     entension |-> Ext(t), targetDir |-> IF Ext(t) # <<>> THEN Dir(t) ELSE t]
ResolveTargetNoCheck(t) ==
    [ok |-> TRUE, filename |-> Base(t), entension |-> Ext(t),
     targetDir |-> IF Ext(t) # <<>> THEN Dir(t)
                   ELSE SubSeq(t, 1, LastIndex(t, Sep) - 1)]
ResolveTarget(t) ==
    LET base == Base(t)
        ext  == Ext(t)
        lasti == LastIndex(t, Sep)
    IN  IF ext # <<>>
        THEN [ok |-> TRUE, filename |-> RemoveFirst(base, ext), entension |-> ext,
              targetDir |-> Dir(t)]
        ELSE IF lasti = 0
        THEN [ok |-> FALSE, filename |-> base, entension |-> ext, targetDir |-> <<>>]
        ELSE [ok |-> TRUE, filename |-> base, entension |-> ext,
              targetDir |-> SubSeq(t, 1, lasti - 1)]

\* lines 138-151: retry, timeout and progressbar from the variadic arguments
RetryArg(m) == IF Len(m) > 0 THEN m[1] ELSE 0
TimeoutArg(m) == IF Len(m) > 1 THEN m[2] ELSE DefaultTimeout
ProgressArg(m) == IF Len(m) > 2 THEN m[3] ELSE FALSE

\* lines 163-168: the server supports ranges
SupportsRanges(contentRange, acceptRanges) ==
    contentRange # "" \/ acceptRanges = "bytes"

\* lines 170-178: the extension inferred from the content type; the filename
\* and the target are rewritten with it
InferExtension(r, t, ctype) ==
    LET exts == ExtensionsByType(ctype)
    IN  IF ctype # NoType /\ r.entension = <<>> /\ Len(exts) > 0
        THEN [filename |-> r.filename \o exts[1], entension |-> exts[1],
              target |-> r.targetDir \o <<Sep>> \o r.filename \o exts[1]]
        ELSE [filename |-> r.filename, entension |-> r.entension, target |-> t]

\* the size a resumed transfer starts from (lines 185-190): the size of the
\* existing file when the server supports ranges, else 0
MeasuredSizeNoStat(rng, exists, fsize) == 0
MeasuredSize(rng, exists, fsize) == IF exists /\ rng THEN fsize ELSE 0

\* the existing file must be deleted (lines 185, 191-192)
MustRemoveNever(rng, exists) == FALSE
MustRemoveAlways(rng, exists) == exists
MustRemove(rng, exists) == exists /\ ~rng

\* line 203: the local file is already complete
AlreadyCompleteAtLeast(sz, len) == sz >= len
AlreadyComplete(sz, len) == sz = len

\* lines 219-223: the Range header of the transfer request ("" when not set)
NoRange == <<>>
RangeHeaderFromZero(rng, sz) == IF rng THEN <<"bytes=", 0, "-">> ELSE NoRange
RangeHeader(rng, sz) == IF rng THEN <<"bytes=", sz, "-">> ELSE NoRange

\* line 242: a status outside 2xx
BadStatus(code) == code < 200 \/ code >= 300

\* line 261: io.LimitReader(body, resp.ContentLength) yields at most
\* ContentLength bytes, none when ContentLength <= 0; without progress bar
\* the body is read as it is
ReaderBytes(pb, declared, n) ==
    IF pb THEN (IF declared <= 0 THEN 0 ELSE IF n < declared THEN n ELSE declared)
    ELSE n

\* line 289: the final size differs from the probed content length
SizeMismatchShortOnly(len, sz) == len > sz
SizeMismatch(len, sz) == len # sz

\* lines 155-156 (and 193, 212, 234, 243, 252, 267, 276): a failed attempt
\* is retried when the budget is positive, with the budget less one
CanRetry(r) == r > 0
NextRetrySame(r) == r
NextRetry(r) == r - 1

\* the paths a target can resolve to
Candidates(t) ==
    IF ResolveTarget(t).ok
    THEN {InferExtension(ResolveTarget(t), t, c).target : c \in ContentTypes}
    ELSE {}

(* ------------------------------- state -------------------------------- *)

VARIABLES
    target0, msgs0,      \* the caller's arguments
    call,                \* the number of the current external call
    pc,                  \* "entry", "probe", "transfer", "copy", "done"
    target, msgs,        \* the arguments of the current invocation
    retry, timeout, progressbar,
    filename, entension, targetDir,
    ranges, contentType, contentLength, size,
    deadline,            \* the Timeout of the client of the request in flight
    reqRange,            \* the Range header of this attempt's transfer request
    sent,                \* transfer requests sent by this attempt
    reader,              \* bytes the body reader of this attempt yields
    body,                \* bytes in the body of this attempt's response
    handles,             \* files opened by this call and not yet closed
    fs,                  \* the regular files: path -> bytes
    res, err,            \* what the call returned
    attempts,            \* the invocations of the current call so far
    opened,              \* this invocation opened the file for writing
    removed,             \* this invocation deleted the file
    prev,                \* what the previous call returned, and from which server
    conc                 \* two concurrent calls and the file they share, or NoConc

args   == <<target0, msgs0>>
parsed == <<retry, timeout, progressbar>>
names  == <<filename, entension, targetDir>>
probed == <<ranges, contentType, contentLength>>
frame  == <<target, msgs, parsed, names, probed, size>>
net    == <<deadline, reqRange, sent, reader, body>>
hist   == <<attempts, opened, removed, prev>>
download == <<args, call, pc, frame, net, handles, fs, res, err, hist>>
vars   == <<download, conc>>

NoRes == <<>>
NoPrev == <<>>
NoConc == <<>>

EmptyFs == [q \in {} |-> <<>>]

\* helper.IsFile: a regular file exists at the path
IsFile(p) == p \in DOMAIN fs

\* os.Stat(p).Size(), for an existing file
FileSize(p) == Len(fs[p])

\* the size of the file at p, 0 if absent
SizeOrZero(p) == IF IsFile(p) THEN FileSize(p) ELSE 0

\* the file system with the file at p removed / set to content c
RemoveFile(f, p) == [q \in DOMAIN f \ {p} |-> f[q]]
WriteFile(f, p, c) == [q \in DOMAIN f \cup {p} |-> IF q = p THEN c ELSE f[q]]

\* the state after construction: a call about to start, and at most one file
\* left at a path the target can resolve to, by an earlier run
Init ==
    /\ target0 \in Targets
    /\ msgs0 \in MsgsSet
    /\ call = 1
    /\ pc = "entry"
    /\ target = target0
    /\ msgs = msgs0
    /\ retry = 0 /\ timeout = 0 /\ progressbar = FALSE
    /\ filename = <<>> /\ entension = <<>> /\ targetDir = <<>>
    /\ ranges = FALSE /\ contentType = NoType /\ contentLength = 0 /\ size = 0
    /\ deadline = NoDeadline /\ reqRange = NoRange /\ sent = 0 /\ reader = 0 /\ body = 0
    /\ handles = 0
    /\ \/ fs = EmptyFs
       \/ \E p \in Candidates(target0), n \in 0..(MaxLen + 1) :
              fs = [q \in {p} |-> Bytes(Old, n)]
    /\ res = NoRes /\ err = NoErr
    /\ attempts = 0
    /\ opened = FALSE /\ removed = FALSE
    /\ prev = NoPrev
    /\ conc = NoConc


(* ----------------------- Download: return and retry ------------------- *)

\* a new invocation: its locals hold their zero values, nothing is in flight
Fresh ==
    /\ retry' = 0 /\ timeout' = 0 /\ progressbar' = FALSE
    /\ filename' = <<>> /\ entension' = <<>> /\ targetDir' = <<>>
    /\ ranges' = FALSE /\ contentType' = NoType /\ contentLength' = 0 /\ size' = 0
    /\ deadline' = NoDeadline /\ reqRange' = NoRange /\ sent' = 0 /\ reader' = 0 /\ body' = 0
    /\ opened' = FALSE /\ removed' = FALSE

\* return Download(uri, target, retry-1, timeout, progressbar), the files being
\* f: the failed invocation stays on the stack, its deferred Close calls
\* pending, until the inner one returns
RetryCall(f) ==
    /\ pc' = "entry"
    /\ msgs' = <<NextRetry(retry), timeout, progressbar>>
    /\ Fresh
    /\ fs' = Aged(f)
    /\ UNCHANGED <<target, res, err, handles>>

\* return nil, e, the files being f: the deferred Close calls of every
\* invocation of the call run
ReturnErr(e, f) ==
    /\ pc' = "done"
    /\ err' = e
    /\ res' = NoRes
    /\ handles' = 0
    /\ fs' = f
    /\ UNCHANGED <<target, msgs, parsed, names, probed, size, net, opened, removed>>

\* if retry > 0 { return Download(...) } else { return nil, e }
Fail(e, f) == IF CanRetry(retry) THEN RetryCall(f) ELSE ReturnErr(e, f)

(* --------------------------- Download: steps -------------------------- *)

\* lines 119-153: resolve the target, read the variadic arguments, send the
\* probe with http.Get, whose client has no Timeout.  Directories are not
\* modelled (lines 134-136 ignore the result of MkdirAll): a missing directory
\* shows as os.OpenFile failing in DoRespond.
Resolve ==
    /\ pc = "entry"
    /\ attempts' = attempts + 1
    /\ LET r == ResolveTarget(target)
       IN  /\ filename' = r.filename
           /\ entension' = r.entension
           /\ targetDir' = r.targetDir
           /\ IF ~r.ok
              THEN /\ pc' = "done"
                   /\ err' = Created("Not the correct file address", attempts')
                   /\ res' = NoRes
                   /\ handles' = 0
                   /\ UNCHANGED parsed
              ELSE /\ retry' = RetryArg(msgs)
                   /\ timeout' = TimeoutArg(msgs)
                   /\ progressbar' = ProgressArg(msgs)
                   /\ pc' = "probe"
                   /\ UNCHANGED <<res, err, handles>>
    /\ UNCHANGED <<args, call, target, msgs, probed, size, net, fs, opened,
                   removed, prev>>

\* the error of line 158, built from the error e of http.Get
HeaderErrorNoCause(e) ==
    [text |-> <<"Failed to get response header, Error message -> ">>, at |-> e.at]
HeaderError(e) ==
    Errorf("Failed to get response header, Error message -> ", e.text, e.at)

\* lines 153-160: http.Get fails
ProbeFail ==
    /\ pc = "probe"
    /\ Fail(HeaderError(Raised("probe", attempts)), fs)
    /\ UNCHANGED <<args, call, attempts, prev>>

\* lines 161-183: the probe is answered; range support, content length and
\* content type are read and the extension is inferred.  A call that follows
\* a returned call finds the server as that call left it.
ProbeRespond(hdr, len, ctype) ==
    /\ pc = "probe"
    /\ prev # NoPrev =>
           /\ SupportsRanges(hdr[1], hdr[2]) = prev.ranges
           /\ len = prev.contentLength
           /\ ctype = prev.contentType
    /\ LET inf == InferExtension([filename |-> filename, entension |-> entension,
                                  targetDir |-> targetDir], target, ctype)
       IN  /\ filename' = inf.filename
           /\ entension' = inf.entension
           /\ target' = inf.target
    /\ ranges' = SupportsRanges(hdr[1], hdr[2])
    /\ contentType' = ctype
    /\ contentLength' = len
    /\ pc' = "plan"
    /\ UNCHANGED <<args, call, msgs, parsed, targetDir, size, net, handles, fs,
                   res, err, hist>>

\* lines 185-232: measure or delete the local file, return at once when it is
\* complete, else send the transfer request.  http.NewRequest (line 210)
\* cannot fail here: http.Get built a request from the same uri at line 153.
Plan(rmOk) ==
    /\ pc = "plan"
    /\ LET exists == IsFile(target)
           sz == MeasuredSize(ranges, exists, SizeOrZero(target))
       IN  IF MustRemove(ranges, exists) /\ ~rmOk
           THEN Fail(Raised("remove", attempts), fs)
           ELSE /\ rmOk
                /\ fs' = IF MustRemove(ranges, exists) THEN RemoveFile(fs, target) ELSE fs
                /\ removed' = MustRemove(ranges, exists)
                /\ size' = sz
                /\ IF AlreadyComplete(sz, contentLength)
                   THEN /\ pc' = "done"
                        /\ err' = NoErr
                        /\ res' = [filename |-> filename, dir |-> targetDir, path |-> target]
                        /\ handles' = 0
                        /\ UNCHANGED net
                   ELSE /\ reqRange' = RangeHeader(ranges, sz)
                        /\ sent' = sent + 1
                        /\ deadline' = timeout
                        /\ pc' = "transfer"
                        /\ UNCHANGED <<reader, body, res, err, handles>>
                /\ UNCHANGED <<target, msgs, parsed, names, probed, opened>>
    /\ UNCHANGED <<args, call, attempts, prev>>

\* lines 232-239: client.Do fails
DoFail ==
    /\ pc = "transfer"
    /\ Fail(Raised("request", attempts), fs)
    /\ UNCHANGED <<args, call, attempts, prev>>

\* the error of line 246
StatusError(code, ep) ==
    [text |-> <<"Http request was not successfully received and processed, status code is ",
                code>>, at |-> ep]

\* lines 240-263: the transfer is answered with a status, a declared length
\* (-1 when none) and a body of n bytes; the file is opened for appending
DoRespond(code, declared, n, openOk) ==
    /\ pc = "transfer"
    /\ declared \in {-1, n}
    /\ IF BadStatus(code)
       THEN Fail(StatusError(code, attempts), fs)
       ELSE IF ~openOk
       THEN Fail(Raised("open", attempts), fs)
       ELSE /\ fs' = IF IsFile(target) THEN fs ELSE WriteFile(fs, target, <<>>)
            /\ opened' = TRUE
            /\ handles' = handles + 1
            /\ reader' = ReaderBytes(progressbar, declared, n)
            /\ body' = n
            /\ pc' = "copy"
            /\ UNCHANGED <<target, msgs, parsed, names, probed, size, deadline,
                           reqRange, sent, removed, res, err>>
    /\ UNCHANGED <<args, call, attempts, prev>>

\* the error of line 290
MismatchError(ep) ==
    Created("The source file and the target file size are inconsistent", ep)

\* lines 289-291: on a size mismatch Download returns and leaves the files f
\* as the copy wrote them
MismatchFilesRemoved(f, t) == RemoveFile(f, t)
MismatchFiles(f, t) == f

\* lines 260-296: io.Copy appends k bytes of the body to the file and ends
\* at the end of the body (ok) or with an error; then the file is measured
\* again and its size compared with the content length
Copy(k, ok) ==
    /\ pc = "copy"
    /\ k \in 0..reader
    /\ ok => k = reader
    /\ LET written == WriteFile(fs, target, fs[target] \o Bytes(New, k))
       IN  IF ~ok
           THEN Fail(Raised("copy", attempts), written)
           ELSE /\ pc' = "done"
                /\ size' = Len(written[target])
                /\ handles' = 0
                /\ IF SizeMismatch(contentLength, size')
                   THEN /\ err' = MismatchError(attempts)
                        /\ res' = NoRes
                        /\ fs' = MismatchFiles(written, target)
                   ELSE /\ err' = NoErr
                        /\ fs' = written
                        /\ res' = [filename |-> filename, dir |-> targetDir, path |-> target]
                /\ UNCHANGED <<target, msgs, parsed, names, probed, net, opened, removed>>
    /\ UNCHANGED <<args, call, attempts, prev>>

\* the deadline of the request in flight passes (http.Client.Timeout covers the
\* request, the response headers and the reading of the body); a request
\* without deadline is never aborted
Timeout ==
    /\ pc \in {"probe", "transfer", "copy"}
    /\ deadline # NoDeadline
    /\ Fail(CASE pc = "probe" -> HeaderError(Raised("timeout", attempts))
              [] OTHER -> Raised("timeout", attempts), fs)
    /\ UNCHANGED <<args, call, attempts, prev>>

\* the caller calls Download again, with the same arguments, for the target
\* the first call completed
CallAgain ==
    /\ pc = "done"
    /\ call = 1
    /\ res # NoRes
    /\ call' = 2
    /\ prev' = [res |-> res, ranges |-> ranges, contentType |-> contentType,
                contentLength |-> contentLength]
    /\ pc' = "entry"
    /\ target' = target0
    /\ msgs' = msgs0
    /\ Fresh
    /\ res' = NoRes /\ err' = NoErr
    /\ fs' = Aged(fs)
    /\ attempts' = 0
    /\ UNCHANGED <<args, handles>>

Next ==
    \/ Resolve /\ UNCHANGED conc
    \/ ProbeFail /\ UNCHANGED conc
    \/ \E hdr \in ProbeHeaders, len \in Lengths, ctype \in ContentTypes :
           ProbeRespond(hdr, len, ctype) /\ UNCHANGED conc
    \/ \E rmOk \in BOOLEAN : Plan(rmOk) /\ UNCHANGED conc
    \/ DoFail /\ UNCHANGED conc
    \/ \E code \in StatusCodes, declared \in Lengths, n \in 0..MaxLen, openOk \in BOOLEAN :
           DoRespond(code, declared, n, openOk) /\ UNCHANGED conc
    \/ \E k \in 0..MaxLen, ok \in BOOLEAN : Copy(k, ok) /\ UNCHANGED conc
    \/ Timeout /\ UNCHANGED conc
    \/ CallAgain /\ UNCHANGED conc

Spec == Init /\ [][Next]_vars

(* ------------------ two concurrent calls of Download ------------------ *)

\* Two callers call Download(uri, TargetFile) for the same source and target,
\* with no lock between them; the server supports ranges and answers
\* correctly. Every step is one request or one system call of one caller.

\* the callers
Procs == {1, 2}

\* the resource of len bytes, each byte named by its position
Resource(len) == [i \in 1..len |-> i]

\* the body the server sends for Range: bytes=sz-
RangeBody(len, sz) == SubSeq(Resource(len), sz + 1, len)

\* the status the server answers Range: bytes=sz- with: 206, or 416 when the
\* range starts at or after the end of the resource
RangeStatus(len, sz) == IF sz >= len THEN 416 ELSE 206

\* the locals of a caller about to call
Caller ==
    [pc |-> "entry", contentLength |-> 0, size |-> 0, reqRange |-> NoRange,
     todo |-> <<>>, res |-> NoRes, err |-> NoErr]

\* the result of a call for TargetFile
ConcRes ==
    [filename |-> ResolveTarget(TargetFile).filename,
     dir |-> ResolveTarget(TargetFile).targetDir, path |-> TargetFile]

\* the two callers about to call, one after the other (serial) or with no
\* order between their steps (concurrent); the file is absent or holds the
\* first bytes of the resource, left by an earlier run
ConcInit ==
    /\ target0 = TargetFile /\ msgs0 = <<>>
    /\ call = 1 /\ pc = "entry"
    /\ target = target0 /\ msgs = msgs0
    /\ retry = 0 /\ timeout = 0 /\ progressbar = FALSE
    /\ filename = <<>> /\ entension = <<>> /\ targetDir = <<>>
    /\ ranges = FALSE /\ contentType = NoType /\ contentLength = 0 /\ size = 0
    /\ deadline = NoDeadline /\ reqRange = NoRange /\ sent = 0 /\ reader = 0 /\ body = 0
    /\ handles = 0 /\ fs = EmptyFs
    /\ res = NoRes /\ err = NoErr
    /\ attempts = 0 /\ opened = FALSE /\ removed = FALSE
    /\ prev = NoPrev
    /\ \E mode \in {"serial", "concurrent"}, len \in 1..MaxLen :
         \E f \in {EmptyFs} \cup {[q \in {TargetFile} |-> SubSeq(Resource(len), 1, n)] : n \in 0..len} :
            conc = [mode |-> mode, length |-> len, fs |-> f,
                    call |-> [p \in Procs |-> Caller]]

\* caller p may take a step: serialized, the second call starts when the
\* first has returned
Turn(p) == conc.mode = "serial" => (p = 1 \/ conc.call[1].pc = "done")

\* lines 153-183: the probe reports range support and the content length
ConcProbe(p) ==
    /\ conc.call[p].pc = "entry"
    /\ Turn(p)
    /\ conc' = [conc EXCEPT !.call[p].pc = "plan",
                            !.call[p].contentLength = conc.length]
    /\ UNCHANGED download

\* lines 185-223: the file is measured; the call returns if it is complete,
\* else the request is sent with the Range header
ConcPlan(p) ==
    /\ conc.call[p].pc = "plan"
    /\ Turn(p)
    /\ LET c == conc.call[p]
           exists == TargetFile \in DOMAIN conc.fs
           sz == MeasuredSize(TRUE, exists, IF exists THEN Len(conc.fs[TargetFile]) ELSE 0)
       IN  conc' = [conc EXCEPT !.call[p] =
                      IF AlreadyComplete(sz, c.contentLength)
                      THEN [c EXCEPT !.pc = "done", !.size = sz, !.res = ConcRes]
                      ELSE [c EXCEPT !.pc = "transfer", !.size = sz,
                                     !.reqRange = RangeHeader(TRUE, sz)]]
    /\ UNCHANGED download

\* lines 232-258: the response arrives; on a 2xx status the file is opened
\* (created if absent) for appending
ConcRespond(p) ==
    /\ conc.call[p].pc = "transfer"
    /\ Turn(p)
    /\ LET c == conc.call[p]
           code == RangeStatus(conc.length, c.size)
       IN  IF BadStatus(code)
           THEN conc' = [conc EXCEPT !.call[p].pc = "done",
                                     !.call[p].err = StatusError(code, 1)]
           ELSE conc' = [conc EXCEPT
                           !.call[p].pc = "copy",
                           !.call[p].todo = RangeBody(conc.length, c.size),
                           !.fs = IF TargetFile \in DOMAIN conc.fs THEN conc.fs
                                  ELSE WriteFile(conc.fs, TargetFile, <<>>)]
    /\ UNCHANGED download

\* line 274: io.Copy writes the next byte of the body; the file is open with
\* O_APPEND, so the byte lands at the end of the file as it is now
ConcWrite(p) ==
    /\ conc.call[p].pc = "copy"
    /\ conc.call[p].todo # <<>>
    /\ Turn(p)
    /\ conc' = [conc EXCEPT
                  !.call[p].todo = Tail(conc.call[p].todo),
                  !.fs = WriteFile(conc.fs, TargetFile,
                             Append(conc.fs[TargetFile], Head(conc.call[p].todo)))]
    /\ UNCHANGED download

\* lines 284-296: the body is written; the file is measured and compared
\* with the content length
ConcVerify(p) ==
    /\ conc.call[p].pc = "copy"
    /\ conc.call[p].todo = <<>>
    /\ Turn(p)
    /\ LET c == conc.call[p]
           sz == Len(conc.fs[TargetFile])
       IN  conc' = [conc EXCEPT !.call[p] =
                      IF SizeMismatch(c.contentLength, sz)
                      THEN [c EXCEPT !.pc = "done", !.size = sz, !.err = MismatchError(1)]
                      ELSE [c EXCEPT !.pc = "done", !.size = sz, !.res = ConcRes]]
    /\ UNCHANGED download

ConcNext ==
    \E p \in Procs :
        \/ ConcProbe(p)
        \/ ConcPlan(p)
        \/ ConcRespond(p)
        \/ ConcWrite(p)
        \/ ConcVerify(p)

ConcSpec == ConcInit /\ [][ConcNext]_vars


(* ------------------------------ claims -------------------------------- *)

\* the caller's retry budget N
Budget == RetryArg(msgs0)

\* the number of bytes of c that were on disk before the current invocation
OldCount(c) == Cardinality({i \in 1..Len(c) : c[i] = Old})

Succeeded == pc = "done" /\ res # NoRes
Failed == pc = "done" /\ err # NoErr

\* C1: whenever Download returns success, the size of the file at the
\* returned path (0 if absent) equals the content length of the probe of the
\* invocation that returned, on the early exit and on the exit after a transfer
C1_SuccessSizeIsLength ==
    Succeeded => SizeOrZero(res.path) = contentLength

\* C1 witness: success after a transfer, in a retry
C1_Witness ==
    /\ Succeeded /\ opened /\ attempts > 1
    /\ contentLength > 0 /\ SizeOrZero(res.path) = contentLength

\* C2: an error of any kind but the invalid target is returned only after
\* N+1 attempts, by an invocation whose budget is 0
C2_ErrorOnlyWhenExhausted ==
    (Failed /\ err.text # <<"Not the correct file address">>)
        => attempts = Budget + 1 /\ retry = 0

\* the position of a stage in an invocation
Stage(p) ==
    CASE p = "entry" -> 0 [] p = "probe" -> 1 [] p = "plan" -> 2
      [] p = "transfer" -> 3 [] p = "copy" -> 4 [] OTHER -> 5

\* the budget of the current invocation, from the caller's budget and the
\* number of invocations
C3_BudgetOfAttempt ==
    /\ attempts <= Budget + 1
    /\ RetryArg(msgs) >= 0
    /\ pc = "entry" => RetryArg(msgs) = Budget - attempts
    /\ pc # "entry" => RetryArg(msgs) = Budget - (attempts - 1)

\* C3: the k-th invocation of a call runs with budget N - (k - 1), which is
\* never negative, so a call makes at most N + 1 attempts; a retry starts only
\* from a positive budget, with the budget less one; and every step of a call
\* either moves the invocation to a later stage or starts such a retry, so a
\* call returns after finitely many steps
C3_BoundedRetry ==
    /\ []C3_BudgetOfAttempt
    /\ [][pc # "done" =>
            \/ RetryArg(msgs') = RetryArg(msgs) /\ Stage(pc') > Stage(pc)
            \/ /\ RetryArg(msgs') = RetryArg(msgs) - 1
               /\ RetryArg(msgs) > 0
               /\ pc' = "entry"]_vars

\* C3 witness: the third invocation of a call with budget 2 runs with budget 0
C3_Witness ==
    /\ Budget = 2 /\ attempts = 3 /\ pc = "probe" /\ retry = 0

\* C4: an invocation that finds the file present, range support and the file
\* size equal to the content length returns success at once: no transfer
\* request is sent, the file is not opened and the files are unchanged
C4_CompleteFileSkipsTransfer ==
    [][(pc = "plan" /\ ranges /\ IsFile(target) /\ FileSize(target) = contentLength)
          => /\ pc' = "done"
             /\ err' = NoErr
             /\ res' = [filename |-> filename, dir |-> targetDir, path |-> target]
             /\ fs' = fs
             /\ sent' = 0
             /\ ~opened' /\ ~removed']_vars

\* C4 witness: the early return for a complete, non-empty file
C4_Witness ==
    /\ Succeeded /\ ranges /\ IsFile(target) /\ contentLength > 0
    /\ sent = 0 /\ ~opened /\ OldCount(fs[target]) = contentLength

\* C5: an invocation that finds range support sends Range: bytes=S-, S being
\* the size the file had when this invocation measured it (its bytes not
\* written by this invocation); if it succeeds the file size is the content length
C5_ResumeFromMeasuredSize ==
    (pc \in {"transfer", "copy", "done"} /\ ranges /\ sent > 0)
        => /\ sent = 1
           /\ reqRange = <<"bytes=", IF IsFile(target) THEN OldCount(fs[target]) ELSE 0, "-">>
           /\ Succeeded => FileSize(target) = contentLength

\* C5 witness: a retry resumes a file of size 1 < L = 2 and succeeds
C5_Witness ==
    /\ Succeeded /\ ranges /\ attempts > 1 /\ contentLength = 2
    /\ reqRange = <<"bytes=", 1, "-">> /\ FileSize(target) = 2

\* C6: an invocation that finds no range support deletes an existing file
\* before it sends the request and opens the file: what it opens holds no byte
\* from before, and after its success the file holds only bytes it wrote; when
\* the deletion fails it neither sends a request nor opens the file
C6_StaleFileDeletedFirst ==
    /\ (pc = "transfer" /\ ~ranges) => ~IsFile(target)
    /\ (opened /\ ~ranges) => IsFile(target) /\ OldCount(fs[target]) = 0
    /\ (Succeeded /\ ~ranges /\ IsFile(target)) => OldCount(fs[target]) = 0
    /\ (Failed /\ err.text = <<"remove">>) => ~opened /\ sent = 0 /\ ~removed

\* C6 witness: success without range support after a stale file was deleted
C6_Witness ==
    /\ Succeeded /\ ~ranges /\ removed /\ opened
    /\ contentLength > 0 /\ fs[target] = Bytes(New, contentLength)

\* C7: a copy that ends with a file size other than the content length makes
\* the call fail with the size-mismatch error, and the file stays as the copy
\* wrote it: what was there before, followed by the bytes copied
C7_MismatchKeepsFile ==
    [][(pc = "copy" /\ pc' = "done")
          => /\ (IsFile(target)' /\ FileSize(target)' # contentLength) => err' # NoErr
             /\ err' = MismatchError(attempts)
                  => /\ res' = NoRes
                     /\ size' # contentLength
                     /\ fs' = WriteFile(fs, target, fs[target] \o Bytes(New, reader))]_vars

\* C7 witness: a size-mismatch failure that leaves old and new bytes on disk
C7_Witness ==
    /\ Failed /\ err = MismatchError(attempts) /\ IsFile(target)
    /\ OldCount(fs[target]) > 0 /\ FileSize(target) > OldCount(fs[target])

\* C8: a second call with the same arguments, after a successful call on a
\* server with range support, returns what the first call returned and
\* neither opens nor deletes the file
C8_SecondCallSameResult ==
    (call = 2 /\ Succeeded /\ prev.ranges)
        => res = prev.res /\ ~opened /\ ~removed

\* C9: every request in flight (probe, transfer, body) has the deadline of
\* the per-attempt timeout
C9_EveryRequestHasDeadline ==
    pc \in {"probe", "transfer", "copy"} => deadline = timeout /\ deadline # NoDeadline

\* the errors the stages of the ep-th invocation raise or create
StageErrors(ep) ==
    {Raised(st, ep) : st \in {"probe", "remove", "request", "open", "copy", "timeout"}}
        \cup {StatusError(code, ep) : code \in StatusCodes}
        \cup {MismatchError(ep), Created("Not the correct file address", ep)}

\* C10 as stated: with the budget exhausted the error returned is the error
\* of the failing stage of the last invocation, unmodified, at every stage
C10_LastErrorVerbatim ==
    (Failed /\ RetryArg(msgs) = 0) => err \in StageErrors(attempts)

\* C10 amended: with the budget exhausted the error returned comes from the
\* failing stage of the last invocation alone; it is that stage's error
\* unmodified, except for a probe failure, which is returned as a new error:
\* the text "Failed to get response header, ..." followed by the probe
\* error's text as %!(EXTRA string=...)
C10_LastErrorOnly ==
    (Failed /\ RetryArg(msgs) = 0) =>
        /\ err.at = attempts
        /\ \/ err \in StageErrors(attempts) \ {Raised("probe", attempts)}
           \/ /\ err.text = <<"Failed to get response header, Error message -> ",
                             "%!(EXTRA string=", "probe", ")">>
              /\ sent = 0

\* C10 witness: the probe of the last of several invocations fails
C10_Witness ==
    /\ Failed /\ attempts > 1 /\ RetryArg(msgs) = 0
    /\ err = HeaderError(Raised("probe", attempts))

\* s ends with suf
EndsWith(s, suf) ==
    Len(s) >= Len(suf) /\ SubSeq(s, Len(s) - Len(suf) + 1, Len(s)) = suf

\* the content type maps to an extension
HasExtension(ctype) == Len(ExtensionsByType(ctype)) > 0

Resuming ==
    /\ pc \in {"plan", "transfer", "copy"}
    /\ ranges /\ IsFile(target)
    /\ IF pc = "plan" THEN FileSize(target) < contentLength ELSE size < contentLength

\* C12: in an attempt that resumes (range support, existing file smaller than
\* the content length) every step, whether the attempt succeeds or fails,
\* leaves the file in place with the bytes it had as an unchanged prefix and
\* with a size that has not decreased (on a retry the bytes are the same ones,
\* seen by the next invocation as already on disk)
C12_ResumeOnlyAppends ==
    [][Resuming =>
          /\ target' = target
          /\ target \in DOMAIN fs'
          /\ Len(fs'[target]) >= Len(fs[target])
          /\ SubSeq(fs'[target], 1, Len(fs[target]))
                 \in {fs[target], Bytes(Old, Len(fs[target]))}]_vars

\* C12 witness: a resumed attempt whose copy failed after appending a byte to
\* the byte already on disk
C12_Witness ==
    /\ Failed /\ err.text = <<"copy">> /\ ranges /\ opened
    /\ size < contentLength
    /\ IsFile(target) /\ OldCount(fs[target]) >= 1
    /\ FileSize(target) > OldCount(fs[target])
    /\ SubSeq(fs[target], 1, OldCount(fs[target])) = Bytes(Old, OldCount(fs[target]))

\* C13: when the request is sent to a server that supports ranges and told
\* the content length, a file
\* left at the target is smaller than the content length (a larger one was
\* deleted as corrupt) and the request asks for the bytes from the size of the
\* file there, from 0 if there is none
C13_OversizedFileRestarted ==
    (pc = "transfer" /\ ranges /\ contentLength >= 0)
        => /\ IsFile(target) => FileSize(target) < contentLength
           /\ reqRange = <<"bytes=", SizeOrZero(target), "-">>

\* the result the caller's request gives for the content type of the probe
ResultOf(t, ctype) ==
    LET r == ResolveTarget(t)
        e == InferExtension(r, t, ctype)
    IN  [filename |-> e.filename, dir |-> r.targetDir, path |-> e.target]

\* C14: every invocation, the first and every retry, starts with the target
\* the caller supplied, and a successful call returns the filename and path
\* the caller's target gives for the probe's content type, however many
\* attempts failed before
C14_RetryWithCallersTarget ==
    /\ pc = "entry" => target = target0
    /\ Succeeded => res = ResultOf(target0, contentType)

\* the caller's target has no extension and no separator
InvalidTarget == Ext(target0) = <<>> /\ LastIndex(target0, Sep) = 0

\* C15 as stated: the invalid-target error is returned after the retries are
\* consumed, i.e. after N + 1 attempts
C15_InvalidTargetRetried ==
    (Failed /\ err.text = <<"Not the correct file address">>)
        => attempts = Budget + 1

\* C15 amended: a call with a target without extension and separator returns
\* the invalid-target error from its first invocation, before the budget is
\* read and before any request, whatever the budget; and the invalid-target
\* error is returned by no other call
C15_InvalidTargetNotRetried ==
    /\ InvalidTarget
          => \/ pc = "entry" /\ attempts = 0
             \/ /\ pc = "done" /\ attempts = 1
                /\ err = Created("Not the correct file address", 1)
                /\ res = NoRes /\ sent = 0 /\ retry = 0
    /\ (Failed /\ err.text = <<"Not the correct file address">>)
          => InvalidTarget /\ attempts = 1

\* C15 witness: the error returned at the first attempt of a call with a
\* positive budget
C15_Witness ==
    /\ Failed /\ InvalidTarget /\ Budget > 0 /\ attempts = 1
    /\ err.text = <<"Not the correct file address">>

\* C16: at most one handle on the target file is open at any time, and none
\* is open when an invocation, the first or a retry, begins or when the call
\* has returned
C16_AtMostOneHandle ==
    /\ handles <= 1
    /\ pc \in {"entry", "done"} => handles = 0

\* C18: an attempt that finds no file at the resolved path when it plans
\* (none was there, or it has just been deleted) does not return from the plan
\* with success, whatever the probe reported; and every successful call
\* leaves a regular file at the returned path
C18_SuccessLeavesFile ==
    /\ [][(pc = "plan" /\ (~IsFile(target) \/ ~ranges) /\ pc' = "done") => res' = NoRes]_vars
    /\ [](Succeeded => res.path \in DOMAIN fs)

\* C19: an invocation whose probe reported an unknown content length (-1)
\* does not succeed: its plan never takes the early exit (it sends the
\* request, unless the deletion of the stale file fails), and an invocation
\* that ends the call after its copy ends it with the size-mismatch error;
\* so a call whose probes all report -1 returns an error
C19_UnknownLengthNeverSucceeds ==
    /\ []((pc \in {"plan", "transfer", "copy", "done"} /\ contentLength = -1) => res = NoRes)
    /\ [][(pc = "plan" /\ contentLength = -1)
             => \/ pc' = "transfer" /\ sent' = sent + 1
                \/ pc' \in {"entry", "done"} /\ res' = NoRes /\ removed' = FALSE
                   /\ IsFile(target) /\ ~ranges]_vars
    /\ [][(pc = "copy" /\ contentLength = -1 /\ pc' = "done")
             => err'.text \in {<<"The source file and the target file size are inconsistent">>,
                               <<"copy">>, <<"timeout">>}]_vars

\* C19 witness: a call that returned the size-mismatch error after a transfer
\* for a probe of unknown length, its budget used up
C19_Witness ==
    /\ Failed /\ contentLength = -1 /\ opened /\ Budget > 0 /\ attempts = Budget + 1
    /\ err.text = <<"The source file and the target file size are inconsistent">>

\* C20: the progress flag does not change what is written: with the flag on
\* the reader the copy consumes yields what it yields with the flag off for
\* the same response (the whole body), also when the response declares no
\* content length, so the same bytes are appended and the same result or
\* error follows
C20_ProgressObservational ==
    pc = "copy" => \A declared \in {-1, body} : reader = ReaderBytes(FALSE, declared, body)

\* both concurrent calls have returned
ConcDone == \A p \in Procs : conc.call[p].pc = "done"

\* the bytes of the file the concurrent calls share
ConcFile == IF TargetFile \in DOMAIN conc.fs THEN conc.fs[TargetFile] ELSE <<>>

\* call p failed with the size-mismatch error
ConcMismatch(p) ==
    conc.call[p].err # NoErr
    /\ conc.call[p].err.text = <<"The source file and the target file size are inconsistent">>

\* C17: with the two calls serialized the file always holds the first bytes
\* of the resource, at most one call sends a range request and no call
\* fails; a file longer than the content length after both calls returned
\* occurs only with concurrent calls, and then at least one of them failed
\* with the size-mismatch error
C17_OnlyConcurrentCallsDuplicate ==
    /\ conc.mode = "serial"
          => /\ ConcFile = SubSeq(Resource(conc.length), 1, Len(ConcFile))
             /\ \E p \in Procs : conc.call[p].reqRange = NoRange
             /\ \A p \in Procs : conc.call[p].err = NoErr
    /\ (ConcDone /\ Len(ConcFile) > conc.length)
          => /\ conc.mode = "concurrent"
             /\ \E p \in Procs : ConcMismatch(p)

\* C17 witness: two concurrent calls measured the same size, sent the same
\* Range header and both appended: the file is longer than the content
\* length, holds a byte twice, and a call failed with the size mismatch
C17_Witness ==
    /\ conc.mode = "concurrent" /\ ConcDone
    /\ conc.call[1].reqRange # NoRange
    /\ conc.call[1].reqRange = conc.call[2].reqRange
    /\ Len(ConcFile) > conc.length
    /\ \E i, j \in 1..Len(ConcFile) : i # j /\ ConcFile[i] = ConcFile[j]
    /\ \E p \in Procs : ConcMismatch(p)

=============================================================================
